---- MODULE Spec2Model ----
(***************************************************************************)
(* Model of the Citizen deployment MCP server (src/src/index.ts), its      *)
(* device authorization flow and credential store                          *)
(* (src/src/auth/device-flow.ts) and its archive builder                   *)
(* (src/src/utils/tar.ts).                                                 *)
(*                                                                         *)
(* One tool call is a chain of steps, one step per awaited exchange with   *)
(* the outside world: the step that starts the call runs the dispatcher,   *)
(* ensureAuth and the handler up to (and including) the server discovery   *)
(* call; every per-server app listing and every per-server run probe is a  *)
(* step of its own; the rest of the handler (the request that follows the  *)
(* server resolution) is the last step.  A new call starts only when the   *)
(* previous one has returned (pc = "idle").                                *)
(***************************************************************************)
EXTENDS Integers, Sequences, FiniteSets, TLC

VARIABLES
    alive,          \* the process is running (no uncaught exception ended it)
    now,            \* wall clock, Date.now()
    file,           \* content of ~/.citizen/mcp-config.json
    perm,           \* permission modes of ~/.citizen and of the file in it
    config,         \* CitizenMCPServer.config
    servers,        \* CitizenMCPServer.servers
    appServerMap,   \* CitizenMCPServer.appServerMap
    runServerMap,   \* CitizenMCPServer.runServerMap
    pc,             \* where the tool call in progress stands
    call,           \* the tool call in progress, or the last one: [tool, arg]
    reqs,           \* remote requests of the routing operation or handler tail
                    \* in progress (or just finished), with their responses
    result,         \* what the last step handed back
    flow,           \* DeviceAuthFlow.authenticate: locals of the handshake
    held            \* the app map as it was when the lookup by app name in
                    \* progress (or just ended) missed; empty otherwise

vars == <<alive, now, file, perm, config, servers, appServerMap, runServerMap,
          pc, call, reqs, result, flow, held>>

(***************************************************************************)
(* Bounds of the model and program constants.                              *)
(***************************************************************************)
MaxServers == 2
MaxTime == 2
TokenLifetime == 2

maxAttempts == 180

ServerIds == 1..MaxServers
AppNames == {"blog", "shop"}
RunIds == {"r1", "r2"}

AppTools == {"get_app_info", "deploy_from_git", "deploy_from_local",
             "list_deployment_runs", "open_app_url"}
KnownTools == {"get_instructions", "authenticate", "check_auth_status",
               "list_servers", "list_apps", "get_deployment_status"} \cup AppTools

(***************************************************************************)
(* Values.                                                                 *)
(***************************************************************************)
\* `https://${server.domain}`: server i has slug i and domain i.
ServerUrl(s) == <<"https", s>>

NoUrl == <<"none", 0>>

\* All sequences over S of length at most n.
SeqsUpTo(S, n) == UNION {[1..k -> S] : k \in 0..n}

\* What the discovery endpoint can list: servers, each at most once.
ServerLists ==
    {q \in SeqsUpTo(ServerIds, MaxServers) :
        \A i, j \in 1..Len(q) : i # j => q[i] # q[j]}

EmptyMap == [x \in {} |-> NoUrl]

\* A JSON response body: {"data": <val>} when env, else <val> itself.  A value
\* is an array (t = "arr", v its elements), null or an object (v its fields of
\* interest).
Enveloped(t, v) == [env |-> TRUE, t |-> t, v |-> v]
Bare(t, v) == [env |-> FALSE, t |-> t, v |-> v]
NoBody == Bare("null", <<>>)

\* JavaScript truthiness of a JSON value: arrays and objects are truthy,
\* null is not.
Truthy(t) == t \in {"arr", "obj"}

\* `data.data || data`: [t, v] of the value handed on.  A body without a data
\* field, or with a falsy one, is handed on whole: a body that is an array
\* stays that array, an enveloping object is an object.
Unwrap(body) ==
    IF body.env
    THEN IF Truthy(body.t) THEN [t |-> body.t, v |-> body.v]
                           ELSE [t |-> "obj", v |-> <<>>]
    ELSE [t |-> body.t, v |-> body.v]

\* An HTTP exchange: answered 2xx ("ok"), answered non-2xx ("http"), or
\* fetch rejected ("net").
Resp(st, body) == [st |-> st, body |-> body]
Failures == {Resp("http", NoBody), Resp("net", NoBody)}

Req(op, to, r) == [op |-> op, to |-> to, st |-> r.st, body |-> r.body]

Ops(log, op) == SelectSeq(log, LAMBDA e : e.op = op)

RECURSIVE SumSeq(_)
SumSeq(s) == IF s = <<>> THEN 0 ELSE Head(s) + SumSeq(Tail(s))

(***************************************************************************)
(* Credential store: DeviceAuthFlow.loadConfig / saveConfig.               *)
(***************************************************************************)
FileOf(kind, exp) == [kind |-> kind, expires_at |-> exp]
NoFile == FileOf("absent", 0)
NoConfig == FileOf("null", 0)

\* absent: no file.  unreadable: readFileSync throws.  notjson: JSON.parse
\* throws.  jsonnull: the file is the JSON text null.  noexpiry: a JSON object
\* without an expires_at field.  bundle: a complete bundle.
BadFiles == {FileOf(k, 0) : k \in {"absent", "unreadable", "notjson", "jsonnull", "noexpiry"}}

loadConfig(f, t) ==
    CASE f.kind = "absent" -> NoConfig               \* !existsSync
      [] f.kind \in {"unreadable", "notjson"} -> NoConfig   \* caught
      [] f.kind = "jsonnull" -> NoConfig             \* null.expires_at throws, caught
      [] f.kind = "noexpiry" -> f                    \* t > undefined is false
      [] f.kind = "bundle" -> IF t > f.expires_at THEN NoConfig ELSE f

\* saveConfig writes the whole bundle; ok = FALSE when mkdirSync or
\* writeFileSync throws, and the file is then left as it was.
saveConfig(f, bundle, ok) == IF ok THEN bundle ELSE f

\* Permission modes of the directory ~/.citizen and of mcp-config.json:
\* "absent" when the entry does not exist.
Modes(dir, f) == [dir |-> dir, file |-> f]
DirModes == {"0700", "0755"}
FileModes == {"0600", "0644"}
OwnerOnly == {"0700", "0600"}

\* `if (!existsSync(configDir)) mkdirSync(configDir, {recursive: true, mode:
\* 0o700})`: the mode is given to a directory that is created, an existing
\* one keeps its own.
mkdirConfigDir(p) == IF p.dir = "absent" THEN [p EXCEPT !.dir = "0700"] ELSE p

\* `writeFileSync(configPath, ..., {mode: 0o600})`: the mode is given to a
\* file that is created, an existing one is rewritten under its own.
writeConfigFile(p) == IF p.file = "absent" THEN [p EXCEPT !.file = "0600"] ELSE p

\* The modes after a saveConfig that returned, and the modes a saveConfig
\* that threw can leave: mkdirSync threw, or writeFileSync threw after it.
savedModes(p) == writeConfigFile(mkdirConfigDir(p))
failedSaveModes(p) == {p, mkdirConfigDir(p)}

\* The modes the entries of the store can have around a file f.
ModesAround(f) ==
    IF f.kind = "absent"
    THEN {Modes(d, "absent") : d \in DirModes \cup {"absent"}}
    ELSE {Modes(d, m) : d \in DirModes, m \in FileModes}

\* A check that takes whatever the store holds for a credential.
ensureAuthUnchecked(c, f, t) == IF c = NoConfig THEN f ELSE c

\* ensureAuth: the config after it, NoConfig when it throws.
ensureAuth(c, f, t) == IF c = NoConfig THEN loadConfig(f, t) ELSE c

(***************************************************************************)
(* Device authorization handshake: DeviceAuthFlow.authenticate.            *)
(* flow = [pc, attempts, polls, last, token, saved, err, bundle]: pc is    *)
(* "idle" before the call, "poll" at the head of an iteration of the poll  *)
(* loop, "token" once authorized, "done" or "failed" at the end; polls     *)
(* counts the status requests issued, last is the status the last poll     *)
(* read ("unread" when its request failed), token says the token exchange  *)
(* was requested, saved that saveConfig wrote the file, bundle is the      *)
(* value returned.                                                         *)
(***************************************************************************)
FlowIdle ==
    [pc |-> "idle", attempts |-> 0, polls |-> 0, last |-> "none",
     token |-> FALSE, saved |-> FALSE, err |-> "none", bundle |-> NoConfig]

Statuses == {"authorized", "expired", "denied", "pending", "unknown"}
\* The statuses the loop has no branch for: it counts the attempt and polls
\* again.
NonTerminal == Statuses \ {"authorized", "expired", "denied"}
StatusBody(s) == Enveloped("obj", <<s>>)
PollResponses == {Resp("ok", StatusBody(s)) : s \in Statuses} \cup Failures

\* {data: {..., expires_in}}: v holds expires_in * 1000.
TokenBody(life) == Enveloped("obj", <<life>>)
TokenResponses == {Resp("ok", TokenBody(TokenLifetime))} \cup Failures
InitResponses == {Resp("ok", Enveloped("obj", <<>>))} \cup Failures

\* Whether the message of a handshake error names the status of the HTTP
\* answer: `Device init failed: ${initResponse.statusText}` and `Token
\* exchange failed: ${tokenResponse.statusText}` do, 'Failed to check
\* authorization status' does not.
statusSurfaced(err) == err \in {"DeviceInitFailed", "TokenExchangeFailed"}

flowFail(f, err) == [f EXCEPT !.pc = "failed", !.err = err]

\* A loop whose condition lets one more iteration through.
loopHeadInclusive(f) ==
    IF f.attempts <= maxAttempts
    THEN [f EXCEPT !.pc = "poll"]
    ELSE flowFail(f, "AuthorizationTimeout")

\* `while (attempts < maxAttempts)` and, when the loop is left by its
\* condition, `if (attempts >= maxAttempts) throw 'Authorization timeout'`.
loopHead(f) ==
    IF f.attempts < maxAttempts
    THEN [f EXCEPT !.pc = "poll"]
    ELSE flowFail(f, "AuthorizationTimeout")

\* POST /auth/device/init and `let attempts = 0`.
afterInit(r) ==
    CASE r.st = "net" -> flowFail(FlowIdle, "NetworkError")
      [] r.st = "http" -> flowFail(FlowIdle, "DeviceInitFailed")
      [] r.st = "ok" -> loopHead([FlowIdle EXCEPT !.attempts = 0])

\* A loop body without the branch for "denied".
afterPollDeniedGoesOn(f, r) ==
    LET g == [f EXCEPT !.polls = f.polls + 1, !.last = "unread"] IN
    CASE r.st = "net" -> flowFail(g, "NetworkError")
      [] r.st = "http" -> flowFail(g, "StatusCheckFailed")
      [] r.st = "ok" ->
            LET s == r.body.v[1]
                h == [g EXCEPT !.last = s] IN
            CASE s = "authorized" -> [h EXCEPT !.pc = "token"]
              [] s = "expired" -> flowFail(h, "AuthorizationExpired")
              [] OTHER -> loopHead([h EXCEPT !.attempts = h.attempts + 1])

\* One iteration of the loop body: the status request and its branches.
afterPoll(f, r) ==
    LET g == [f EXCEPT !.polls = f.polls + 1, !.last = "unread"] IN
    CASE r.st = "net" -> flowFail(g, "NetworkError")
      [] r.st = "http" -> flowFail(g, "StatusCheckFailed")
      [] r.st = "ok" ->
            LET s == r.body.v[1]
                h == [g EXCEPT !.last = s] IN
            CASE s = "authorized" -> [h EXCEPT !.pc = "token"]     \* break
              [] s = "expired" -> flowFail(h, "AuthorizationExpired")
              [] s = "denied" -> flowFail(h, "AuthorizationDenied")
              [] OTHER -> loopHead([h EXCEPT !.attempts = h.attempts + 1])

\* POST /auth/device/token, the bundle and saveConfig.
afterToken(f, r, t, saveOk) ==
    LET g == [f EXCEPT !.token = TRUE] IN
    CASE r.st = "net" -> flowFail(g, "NetworkError")
      [] r.st = "http" -> flowFail(g, "TokenExchangeFailed")
      [] r.st = "ok" ->
            IF saveOk
            THEN [g EXCEPT !.pc = "done", !.saved = TRUE,
                           !.bundle = FileOf("bundle", t + r.body.v[1])]
            ELSE flowFail(g, "SaveFailed")

\* A whole handshake against a scripted identity provider: the init answer,
\* `pending` polls answering "pending", then the poll answer `term`, the
\* token answer and whether the file can be written.
Script(init, pending, term, token, saveOk) ==
    [init |-> init, pending |-> pending, term |-> term, token |-> token,
     saveOk |-> saveOk]

pollAt(sc, i) ==
    IF i <= sc.pending THEN Resp("ok", StatusBody("pending")) ELSE sc.term

\* The poll loop run against the script: n more iterations, if the loop is
\* still running.
pollOnce(f, sc) ==
    IF f.pc = "poll" THEN afterPoll(f, pollAt(sc, f.polls + 1)) ELSE f

RECURSIVE pollTimes(_, _, _)
pollTimes(f, sc, n) ==
    IF f.pc # "poll" \/ n = 0 THEN f
    ELSE IF n = 1 THEN pollOnce(f, sc)
    ELSE LET h == n \div 2 IN pollTimes(pollTimes(f, sc, h), sc, n - h)

\* The handshake up to the end of its poll loop.
runPolls(sc) == pollTimes(afterInit(sc.init), sc, sc.pending + 1)

\* The handshake from the token exchange on, at time t.
authenticate(f, sc, t) ==
    IF f.pc = "token" THEN afterToken(f, sc.token, t, sc.saveOk) ELSE f

\* The scripts the tool-level specification draws from: a handshake that ends
\* at the first poll, after one pending poll, at the last poll the cap
\* allows, and one that is never answered.
ScriptPendings == {0, 1, maxAttempts - 1}
Scripts ==
    {Script(i, 0, Resp("ok", StatusBody("pending")), Resp("net", NoBody), FALSE) :
        i \in Failures}
    \cup {Script(Resp("ok", NoBody), k, p, Resp("net", NoBody), FALSE) :
        k \in ScriptPendings,
        p \in PollResponses
                \ {Resp("ok", StatusBody(s)) : s \in {"authorized"} \cup NonTerminal}}
    \cup {Script(Resp("ok", NoBody), k, Resp("ok", StatusBody("authorized")), tk, sv) :
        k \in ScriptPendings, tk \in TokenResponses, sv \in BOOLEAN}
    \cup {Script(Resp("ok", NoBody), maxAttempts, Resp("ok", StatusBody("pending")),
                 Resp("net", NoBody), FALSE)}

\* Each script with the state its poll loop ends in.
Handshakes == {[sc |-> sc, f |-> runPolls(sc)] : sc \in Scripts}

(***************************************************************************)
(* Remote payloads.                                                        *)
(***************************************************************************)
\* GET /servers: `data.data || []`.
DiscoveryResponses ==
    {Resp("ok", Enveloped("arr", l)) : l \in ServerLists}
    \cup {Resp("ok", Bare("obj", <<>>))} \cup Failures

\* A discovery that appends what it fetched to the servers already known.
fetchServersMerge(body) ==
    servers \o (IF body.env /\ Truthy(body.t) THEN body.v ELSE <<>>)

fetchServers(body) == IF body.env /\ Truthy(body.t) THEN body.v ELSE <<>>

\* An app entry of GET /apps: a bare name, or an object naming the app in
\* app_name or in name ("" stands for a field that is not there).
Str(n) == [kind |-> "string", s |-> n, app_name |-> "", name |-> ""]
ObjA(n) == [kind |-> "object", s |-> "", app_name |-> n, name |-> ""]
ObjN(n) == [kind |-> "object", s |-> "", app_name |-> "", name |-> n]
Nameless == ObjA("")

AppBodies ==
    {Enveloped("arr", <<>>),
     Enveloped("arr", <<Str("blog")>>),
     Bare("arr", <<ObjA("shop"), Nameless>>),
     Enveloped("arr", <<ObjN("blog"), Str("shop")>>)}
AppResponses == {Resp("ok", b) : b \in AppBodies} \cup Failures

\* `typeof app === 'string' ? app : (app.app_name || app.name)`
appNameOf(e) ==
    IF e.kind = "string" THEN e.s
    ELSE IF e.app_name # "" THEN e.app_name ELSE e.name

\* A listing that reads the `data` envelope only and takes a body that is
\* itself the array for an empty list.
appsListOfEnvelopeOnly(body) == IF body.env /\ body.t = "arr" THEN body.v ELSE <<>>

\* `data.data || data || []` and `Array.isArray(apps) ? apps : []`
appsListOf(body) == LET u == Unwrap(body) IN IF u.t = "arr" THEN u.v ELSE <<>>

\* An entry whose URL is built with the plain-HTTP scheme.
AppEntryPlainHttp(name, s) ==
    [app_name |-> name, server_url |-> <<"http", s>>, server_slug |-> s]

\* `{app_name: appName, server_url: serverUrl, server_slug: server.slug}` with
\* serverUrl = `https://${server.domain}`
AppEntry(name, s) ==
    [app_name |-> name, server_url |-> ServerUrl(s), server_slug |-> s]

mapSet(m, k, v) == [x \in DOMAIN m \cup {k} |-> IF x = k THEN v ELSE m[x]]

\* `for (const app of appsList) { if (appName) this.appServerMap.set(...) }`
RECURSIVE setApps(_, _, _)
setApps(m, list, s) ==
    IF list = <<>> THEN m
    ELSE LET n == appNameOf(Head(list)) IN
         setApps(IF n # "" THEN mapSet(m, n, AppEntry(n, s)) ELSE m, Tail(list), s)

\* POST /deploy and /deploy-local: an object with a run_id, or without one.
DeployBodies ==
    {Enveloped("obj", <<r>>) : r \in RunIds}
    \cup {Bare("obj", <<"r1">>), Enveloped("obj", <<>>)}
DeployResponses == {Resp("ok", b) : b \in DeployBodies} \cup Failures

\* GET /apps/{name}/runs: an array of runs (their run_id), or a body whose
\* data field is null.
RunsBodies ==
    {Enveloped("arr", q) : q \in {<<>>, <<"r1">>, <<"r2">>, <<"r1", "r2">>}}
    \cup {Enveloped("null", <<>>)}
RunsResponses == {Resp("ok", b) : b \in RunsBodies} \cup Failures

\* `for (const run of runs) { if (run.run_id) this.runServerMap.set(...) }`
RECURSIVE setRuns(_, _, _)
setRuns(m, list, url) ==
    IF list = <<>> THEN m
    ELSE setRuns(mapSet(m, Head(list), url), Tail(list), url)

\* GET /apps/{name}: an object, with its domains or without.
InfoBodies == {Enveloped("obj", <<>>), Enveloped("obj", <<"blog.example.com">>)}
InfoResponses == {Resp("ok", b) : b \in InfoBodies} \cup Failures

\* GET /runs/{id}
RunResponses == {Resp("ok", Enveloped("obj", <<>>))} \cup Failures

(***************************************************************************)
(* Results of a step.                                                      *)
(***************************************************************************)
\* isError: the isError flag of the tool result.  kind: which return or throw
\* statement produced it.  url: the server URL the routing cache resolved.
\* total, groups: totalApps and allApps.length of handleListApps.  tmp: what
\* became of the temporary archive of deploy_from_local.  payload: the value
\* the handler took out of the 2xx response body (`data.data || data`).
NoPayload == [t |-> "none", v |-> <<>>]
Res(isError, kind) ==
    [isError |-> isError, kind |-> kind, url |-> NoUrl, total |-> 0,
     groups |-> 0, tmp |-> "none", payload |-> NoPayload]
Pending == Res(FALSE, "pending")
Ok(kind) == Res(FALSE, kind)
\* The catch of handleToolCall: `isError: true` with the error's message.
Caught(kind) == Res(TRUE, kind)

\* The message of a fetch that did not yield a 2xx answer, as the code after
\* the fetch builds it: a rejected fetch throws its own error.
thrownBy(r, kind) == IF r.st = "net" THEN "NetworkError" ELSE kind

CallOf(tool, arg) == [tool |-> tool, arg |-> arg]
NoCall == CallOf("none", "-")

(***************************************************************************)
(* Initial states.                                                         *)
(***************************************************************************)
InitMemory ==
    /\ alive = TRUE
    /\ now = 0
    /\ config = NoConfig
    /\ servers = <<>>
    /\ appServerMap = EmptyMap
    /\ runServerMap = EmptyMap
    /\ pc = "idle"
    /\ call = NoCall
    /\ reqs = <<>>
    /\ result = Pending
    /\ flow = FlowIdle
    /\ held = EmptyMap

\* The process starts with no credential file or with a bundle that is good
\* for the whole run, saved by an earlier run into a directory it created.
Init ==
    /\ InitMemory
    /\ file \in {NoFile, FileOf("bundle", MaxTime + TokenLifetime)}
    /\ perm = IF file = NoFile THEN Modes("absent", "absent")
                               ELSE savedModes(Modes("absent", "absent"))

(***************************************************************************)
(* Tool Dispatcher: handleToolCall and the handlers without routing.       *)
(***************************************************************************)
\* this.config after ensureAuth; NoConfig when ensureAuth throws.
Authed == ensureAuth(config, file, now)

\* A call that the catch of handleToolCall ends before any component call.
Refused(kind) ==
    /\ result' = Caught(kind)
    /\ reqs' = <<>>
    /\ pc' = "idle"
    /\ UNCHANGED <<servers, appServerMap, runServerMap>>

\* get_instructions: readFileSync of the packaged file may throw.
CallGetInstructions ==
    /\ alive /\ pc = "idle"
    /\ held' = EmptyMap
    /\ call' = CallOf("get_instructions", "-")
    /\ \E readable \in BOOLEAN :
          result' = IF readable THEN Ok("Instructions") ELSE Caught("ReadFailed")
    /\ reqs' = <<>> /\ pc' = "idle" /\ flow' = FlowIdle
    /\ UNCHANGED <<alive, now, file, perm, config, servers, appServerMap, runServerMap>>

\* check_auth_status: this.config = await loadConfig(); both outcomes are
\* plain results.
CallCheckAuthStatus ==
    /\ alive /\ pc = "idle"
    /\ held' = EmptyMap
    /\ call' = CallOf("check_auth_status", "-")
    /\ config' = loadConfig(file, now)
    /\ result' = IF config' = NoConfig THEN Ok("NotAuthenticatedNotice")
                                      ELSE Ok("Authenticated")
    /\ reqs' = <<>> /\ pc' = "idle" /\ flow' = FlowIdle
    /\ UNCHANGED <<alive, now, file, perm, servers, appServerMap, runServerMap>>

\* default: throw new Error(`Unknown tool: ${name}`)
CallUnknown ==
    /\ alive /\ pc = "idle"
    /\ held' = EmptyMap
    /\ call' = CallOf("no_such_tool", "-")
    /\ Refused("UnknownTool")
    /\ flow' = FlowIdle
    /\ UNCHANGED <<alive, now, file, perm, config>>

\* A handleAuthenticate that empties the caches before it awaits the
\* handshake, so that a handshake that throws leaves them empty.
authenticateThrewCleared(f) ==
    /\ result' = Caught(f.err)
    /\ perm' \in (IF f.err = "SaveFailed" THEN failedSaveModes(perm) ELSE {perm})
    /\ servers' = <<>>
    /\ appServerMap' = EmptyMap
    /\ runServerMap' = EmptyMap
    /\ UNCHANGED <<config, file>>

\* `this.config = await this.authFlow.authenticate()` when authenticate()
\* throws: the assignment and the three statements after it are not reached.
\* A saveConfig that threw may have created the directory.
authenticateThrew(f) ==
    /\ result' = Caught(f.err)
    /\ perm' \in (IF f.err = "SaveFailed" THEN failedSaveModes(perm) ELSE {perm})
    /\ UNCHANGED <<config, file, servers, appServerMap, runServerMap>>

\* handleAuthenticate that forgets the servers and the apps but keeps the
\* run map.
finishAuthenticateKeepRuns(f) ==
    /\ flow' = f
    /\ pc' = "idle"
    /\ IF f.pc = "done"
       THEN /\ config' = f.bundle
            /\ file' = saveConfig(file, f.bundle, TRUE)
            /\ perm' = savedModes(perm)
            /\ servers' = <<>>
            /\ appServerMap' = EmptyMap
            /\ runServerMap' = runServerMap
            /\ result' = Ok("AuthenticatedAs")
       ELSE authenticateThrew(f)

\* handleAuthenticate once authFlow.authenticate() has returned or thrown:
\* on a return the bundle replaces this.config and the three caches are
\* cleared; a throw reaches the catch of handleToolCall before any assignment.
finishAuthenticate(f) ==
    /\ flow' = f
    /\ pc' = "idle"
    /\ IF f.pc = "done"
       THEN /\ config' = f.bundle
            /\ file' = saveConfig(file, f.bundle, TRUE)
            /\ perm' = savedModes(perm)
            /\ servers' = <<>>
            /\ appServerMap' = EmptyMap
            /\ runServerMap' = EmptyMap
            /\ result' = Ok("AuthenticatedAs")
       ELSE authenticateThrew(f)

\* authenticate, the handshake run as a whole against a scripted provider.
CallAuthenticate ==
    /\ alive /\ pc = "idle"
    /\ held' = EmptyMap
    /\ call' = CallOf("authenticate", "-")
    /\ \E h \in Handshakes : finishAuthenticate(authenticate(h.f, h.sc, now))
    /\ reqs' = <<>>
    /\ UNCHANGED <<alive, now>>

(***************************************************************************)
(* Server/App Routing Cache.                                               *)
(***************************************************************************)
\* `if (this.servers.length === 0) this.servers = await this.fetchServers()`
\* with the answer r of the discovery endpoint, asked only when the set is
\* empty.
DiscoveryChoices == IF servers = <<>> THEN DiscoveryResponses ELSE {Resp("ok", NoBody)}

\* A refresh of the server set on every call, empty or not.
discoverAlways(r) ==
    IF r.st = "ok"
    THEN [ok |-> TRUE, servers |-> fetchServers(r.body),
          log |-> <<Req("discover", 0, r)>>, err |-> "none"]
    ELSE [ok |-> FALSE, servers |-> servers,
          log |-> <<Req("discover", 0, r)>>,
          err |-> thrownBy(r, "FetchServersFailed")]

discoverIfEmpty(r) ==
    IF servers # <<>>
    THEN [ok |-> TRUE, servers |-> servers, log |-> <<>>, err |-> "none"]
    ELSE IF r.st = "ok"
         THEN [ok |-> TRUE, servers |-> fetchServers(r.body),
               log |-> <<Req("discover", 0, r)>>, err |-> "none"]
         ELSE [ok |-> FALSE, servers |-> servers,
               log |-> <<Req("discover", 0, r)>>,
               err |-> thrownBy(r, "FetchServersFailed")]

Resolved(url) == [Pending EXCEPT !.kind = "resolved", !.url = url]

\* A lookup that never trusts the map and refreshes on every call.
cachedAppNever(m, name) == FALSE

\* `let appInfo = this.appServerMap.get(appName); if (!appInfo)`: an entry is
\* an object, so the test fails exactly when the name is a key.
cachedApp(m, name) == name \in DOMAIN m

\* A run lookup that never trusts the map and probes on every call.
cachedRunNever(m, run) == FALSE

\* `const cachedUrl = this.runServerMap.get(runId); if (cachedUrl)`: a URL is
\* a non-empty string.
cachedRun(m, run) == run \in DOMAIN m

\* A loop that gives up after its first iteration.
moreServersNone(list, i) == FALSE

\* `for (const server of this.servers)`: after iteration i, is there another?
moreServers(list, i) == i < Len(list)

\* A probe loop that returns the URL without recording it.
foundRunForget(m, run, url) == m

\* `this.runServerMap.set(runId, serverUrl)` of the probe loop
foundRun(m, run, url) == mapSet(m, run, url)

\* A lookup that refreshes but does not look the name up again.
lookupAgainNever(name, m) == [pc |-> "idle", result |-> Caught("AppNotFound")]

\* getServerUrlForApp after `await this.handleListApps()`: the second
\* map lookup, and the throw when the name is still missing.
lookupAgain(name, m) ==
    IF cachedApp(m, name)
    THEN [pc |-> "app", result |-> Resolved(m[name].server_url)]
    ELSE [pc |-> "idle", result |-> Caught("AppNotFound")]

\* Where handleListApps returns to: the tool list_apps hands its text to the
\* host, getServerUrlForApp drops it and looks the name up again.
afterListApps(c, m, ret) ==
    IF c.tool = "list_apps" THEN [pc |-> "idle", result |-> ret]
    ELSE lookupAgain(c.arg, m)

\* A refresh that merges into the map it finds.
clearAppsKeep(m) == m

\* `this.appServerMap.clear()`
clearApps(m) == EmptyMap

\* A handleListApps that clears the map before it discovers the servers.
appsWhenDiscoveryThrowsCleared(m) == EmptyMap

\* handleListApps when fetchServers throws: `this.appServerMap.clear()` comes
\* after the discovery and is not reached.
appsWhenDiscoveryThrows(m) == m

\* handleListApps up to its loop, entered by call c.
beginListApps(c, r) ==
    LET d == discoverIfEmpty(r) IN
    /\ reqs' = d.log
    /\ runServerMap' = runServerMap
    /\ IF ~d.ok
       THEN /\ result' = Caught(d.err)
            /\ pc' = "idle"
            /\ servers' = servers
            /\ appServerMap' = appsWhenDiscoveryThrows(appServerMap)
       ELSE /\ servers' = d.servers
            /\ IF d.servers = <<>>
               THEN LET k == afterListApps(c, appServerMap, Ok("NoServers")) IN
                    /\ pc' = k.pc
                    /\ result' = k.result
                    /\ appServerMap' = appServerMap
               ELSE /\ appServerMap' = clearApps(appServerMap)
                    /\ pc' = "listing"
                    /\ result' = Pending

\* list_apps
CallListApps ==
    /\ alive /\ pc = "idle"
    /\ held' = EmptyMap
    /\ call' = CallOf("list_apps", "-")
    /\ config' = Authed
    /\ IF Authed = NoConfig
       THEN Refused("NotAuthenticated")
       ELSE \E r \in DiscoveryChoices : beginListApps(call', r)
    /\ flow' = FlowIdle
    /\ UNCHANGED <<alive, now, file, perm>>

\* One iteration of `for (const server of this.servers)` in handleListApps
\* and, after the last one, the rest of handleListApps.
ListingStep ==
    /\ alive /\ pc = "listing"
    /\ \E r \in AppResponses :
          LET i == Len(Ops(reqs, "apps")) + 1
              s == servers[i]
              list == appsListOf(r.body)
              m == IF r.st = "ok" THEN setApps(appServerMap, list, s)
                   ELSE appServerMap
              acc == IF r.st = "ok"
                     THEN [result EXCEPT !.total = @ + Len(list), !.groups = @ + 1]
                     ELSE result
              ret == [acc EXCEPT !.kind = IF acc.total = 0 THEN "NoApps" ELSE "Apps"]
              k == afterListApps(call, m, ret)
          IN  /\ reqs' = Append(reqs, Req("apps", s, r))
              /\ appServerMap' = m
              /\ IF moreServers(servers, i)
                 THEN pc' = "listing" /\ result' = acc
                 ELSE pc' = k.pc /\ result' = k.result
    /\ UNCHANGED <<alive, now, file, perm, config, servers, runServerMap, call, flow,
                   held>>

\* list_servers: handleListServers always fetches.
CallListServers ==
    /\ alive /\ pc = "idle"
    /\ held' = EmptyMap
    /\ call' = CallOf("list_servers", "-")
    /\ config' = Authed
    /\ IF Authed = NoConfig
       THEN Refused("NotAuthenticated")
       ELSE \E r \in DiscoveryResponses :
              /\ reqs' = <<Req("discover", 0, r)>>
              /\ pc' = "idle"
              /\ IF r.st = "ok"
                 THEN /\ servers' = fetchServers(r.body)
                      /\ result' = Ok(IF servers' = <<>> THEN "NoServers" ELSE "Servers")
                 ELSE /\ servers' = servers
                      /\ result' = Caught(thrownBy(r, "FetchServersFailed"))
              /\ UNCHANGED <<appServerMap, runServerMap>>
    /\ flow' = FlowIdle
    /\ UNCHANGED <<alive, now, file, perm>>

\* The tools that start with getServerUrlForApp(app_name): the cache lookup
\* and, on a miss, handleListApps.
CallAppTool ==
    /\ alive /\ pc = "idle"
    /\ \E tool \in AppTools, name \in AppNames :
          /\ call' = CallOf(tool, name)
          /\ config' = Authed
          /\ IF Authed = NoConfig
             THEN Refused("NotAuthenticated")
             ELSE IF cachedApp(appServerMap, name)
                  THEN /\ pc' = "app"
                       /\ result' = Resolved(appServerMap[name].server_url)
                       /\ reqs' = <<>>
                       /\ UNCHANGED <<servers, appServerMap, runServerMap>>
                  ELSE \E r \in DiscoveryChoices : beginListApps(call', r)
          /\ held' = IF Authed # NoConfig /\ ~cachedApp(appServerMap, name)
                     THEN appServerMap ELSE EmptyMap
    /\ flow' = FlowIdle
    /\ UNCHANGED <<alive, now, file, perm>>

\* get_deployment_status: getServerUrlForRun up to its probe loop.
CallGetDeploymentStatus ==
    /\ alive /\ pc = "idle"
    /\ held' = EmptyMap
    /\ \E run \in RunIds :
          /\ call' = CallOf("get_deployment_status", run)
          /\ config' = Authed
          /\ IF Authed = NoConfig
             THEN Refused("NotAuthenticated")
             ELSE IF cachedRun(runServerMap, run)
                  THEN /\ pc' = "run"
                       /\ result' = Resolved(runServerMap[run])
                       /\ reqs' = <<>>
                       /\ UNCHANGED <<servers, appServerMap, runServerMap>>
                  ELSE \E r \in DiscoveryChoices :
                         LET d == discoverIfEmpty(r) IN
                         /\ reqs' = d.log
                         /\ servers' = d.servers
                         /\ IF ~d.ok
                            THEN pc' = "idle" /\ result' = Caught(d.err)
                            ELSE IF d.servers = <<>>
                                 THEN pc' = "idle" /\ result' = Caught("RunNotFound")
                                 ELSE pc' = "probing" /\ result' = Pending
                         /\ UNCHANGED <<appServerMap, runServerMap>>
    /\ flow' = FlowIdle
    /\ UNCHANGED <<alive, now, file, perm>>

\* A probe loop that asks the first server once more when its fetch was
\* rejected.
probeIndexRetry(log) ==
    IF log # <<>> /\ log[1].st = "net"
    THEN (IF Len(log) = 1 THEN 1 ELSE Len(log))
    ELSE Len(log) + 1

\* `for (const server of this.servers)`: the server the next iteration asks
\* is the one after those already asked.
probeIndex(log) == Len(log) + 1

\* A probe loop without the try around the fetch: a rejected fetch ends the
\* lookup.
probeAbortsOnNet(r) == r.st = "net"

\* `try { ... if (response.ok) {...} } catch (error) { }` of the probe loop:
\* does answer r end the lookup with an error?  A non-2xx answer falls
\* through the if, a rejected fetch is caught and dropped.
probeAborts(r) == FALSE

\* One iteration of `for (const server of this.servers)` in
\* getServerUrlForRun and, after the last one, its throw.
ProbeStep ==
    /\ alive /\ pc = "probing"
    /\ held' = EmptyMap
    /\ \E r \in RunResponses :
          LET i == probeIndex(Ops(reqs, "probe"))
              s == servers[i]
          IN  /\ reqs' = Append(reqs, Req("probe", s, r))
              /\ IF r.st = "ok"
                 THEN /\ runServerMap' = foundRun(runServerMap, call.arg, ServerUrl(s))
                      /\ pc' = "run"
                      /\ result' = Resolved(ServerUrl(s))
                 ELSE /\ runServerMap' = runServerMap
                      /\ IF probeAborts(r)
                         THEN pc' = "idle" /\ result' = Caught(thrownBy(r, "ProbeFailed"))
                         ELSE IF moreServers(servers, i)
                              THEN pc' = "probing" /\ result' = result
                              ELSE pc' = "idle" /\ result' = Caught("RunNotFound")
    /\ UNCHANGED <<alive, now, file, perm, config, servers, appServerMap, call, flow>>

(***************************************************************************)
(* The handlers after the routing cache has resolved the server.           *)
(***************************************************************************)
\* The server of the resolved URL.
Target == result.url[2]

Done(res) == [res EXCEPT !.url = result.url]

TailFrame ==
    /\ UNCHANGED <<now, file, perm, config, servers, appServerMap, call, flow>>
    /\ held' = EmptyMap

\* handleGetAppInfo after getServerUrlForApp
GetAppInfoTail ==
    /\ alive /\ pc = "app" /\ call.tool = "get_app_info"
    /\ \E r \in InfoResponses :
          /\ reqs' = <<Req("info", Target, r)>>
          /\ result' = Done(IF r.st = "ok"
                            THEN [Ok("AppInfo") EXCEPT !.payload = Unwrap(r.body)]
                            ELSE Caught(thrownBy(r, "GetAppInfoFailed")))
    /\ pc' = "idle"
    /\ UNCHANGED <<alive, runServerMap>>
    /\ TailFrame

\* A deploy that keeps the run it started as the only run it knows.
rememberRunOnly(m, body, url) ==
    LET res == Unwrap(body) IN
    IF res.v # <<>> THEN mapSet(EmptyMap, res.v[1], url) ELSE m

\* `if (result.run_id) this.runServerMap.set(result.run_id, serverUrl)`
rememberRun(m, body, url) ==
    LET res == Unwrap(body) IN
    IF res.v # <<>> THEN mapSet(m, res.v[1], url) ELSE m

\* handleDeployFromGit after getServerUrlForApp
DeployFromGitTail ==
    /\ alive /\ pc = "app" /\ call.tool = "deploy_from_git"
    /\ \E r \in DeployResponses :
          /\ reqs' = <<Req("deploy", Target, r)>>
          /\ IF r.st = "ok"
             THEN /\ runServerMap' = rememberRun(runServerMap, r.body, result.url)
                  /\ result' = Done(Ok("DeploymentStarted"))
             ELSE /\ runServerMap' = runServerMap
                  /\ result' = Done(Caught(thrownBy(r, "DeploymentFailed")))
    /\ pc' = "idle"
    /\ UNCHANGED alive
    /\ TailFrame

\* handleListDeploymentRuns after getServerUrlForApp; `for (const run of
\* runs)` throws a TypeError when runs is not iterable.
ListRunsTail ==
    /\ alive /\ pc = "app" /\ call.tool = "list_deployment_runs"
    /\ \E r \in RunsResponses :
          /\ reqs' = <<Req("runs", Target, r)>>
          /\ IF r.st = "ok"
             THEN LET runs == Unwrap(r.body) IN
                  IF runs.t = "arr"
                  THEN /\ runServerMap' = setRuns(runServerMap, runs.v, result.url)
                       /\ result' = Done([Ok(IF runs.v = <<>> THEN "NoRuns" ELSE "Runs")
                                            EXCEPT !.payload = runs])
                  ELSE /\ runServerMap' = runServerMap
                       /\ result' = Done([Caught("TypeError") EXCEPT !.payload = runs])
             ELSE /\ runServerMap' = runServerMap
                  /\ result' = Done(Caught(thrownBy(r, "ListRunsFailed")))
    /\ pc' = "idle"
    /\ UNCHANGED alive
    /\ TailFrame

\* handleOpenAppUrl after getServerUrlForApp: without a domain it returns an
\* error result itself; open(url) may throw.
OpenAppUrlTail ==
    /\ alive /\ pc = "app" /\ call.tool = "open_app_url"
    /\ \E r \in InfoResponses, opened \in BOOLEAN :
          /\ reqs' = <<Req("info", Target, r)>>
          /\ result' = Done(
                IF r.st # "ok" THEN Caught(thrownBy(r, "GetAppInfoFailed"))
                ELSE IF Unwrap(r.body).v = <<>> THEN Res(TRUE, "NoDomain")
                ELSE IF opened THEN Ok("Opened") ELSE Caught("OpenFailed"))
    /\ pc' = "idle"
    /\ UNCHANGED <<alive, runServerMap>>
    /\ TailFrame

\* createTarGz: the promise resolves when the output stream closes
\* ("written"), rejects when the archiver emits 'error' ("rejected": the
\* output file is created and stays), and the output stream has no 'error'
\* listener, so a failure to open or write the file is an unhandled 'error'
\* event, which ends the process ("streamError").
TarOutcomes == {"written", "rejected", "streamError"}

\* handleDeployFromLocal after getServerUrlForApp: the archive, the upload,
\* deploy-local, and `finally { unlinkSync(tarPath) }`, whose own throw
\* replaces whatever the try block returned or threw.
deployLocalTry(up, dep) ==
    IF up.st # "ok" THEN Caught(thrownBy(up, "UploadFailed"))
    ELSE IF dep.st # "ok" THEN Caught(thrownBy(dep, "DeployFailed"))
    ELSE Ok("LocalDeploymentStarted")

deployLocalReqs(t, up, dep) ==
    <<Req("upload", t, up)>>
    \o (IF up.st = "ok" THEN <<Req("deployLocal", t, dep)>> ELSE <<>>)

DeployFromLocalTail ==
    /\ pc = "app" /\ call.tool = "deploy_from_local"
    /\ alive
    /\ \E tar \in TarOutcomes :
          CASE tar = "streamError" ->
                 /\ alive' = FALSE
                 /\ pc' = "crashed"
                 /\ reqs' = <<>>
                 /\ result' = [Done(Pending) EXCEPT !.tmp = "left"]
                 /\ runServerMap' = runServerMap
            [] tar = "rejected" ->
                 /\ alive' = alive
                 /\ pc' = "idle"
                 /\ reqs' = <<>>
                 /\ result' = [Done(Caught("ArchiveError")) EXCEPT !.tmp = "left"]
                 /\ runServerMap' = runServerMap
            [] tar = "written" ->
                 \E up \in InfoResponses, dep \in DeployResponses, unlinked \in BOOLEAN :
                    /\ up.st # "ok" => dep = Resp("net", NoBody)
                    /\ alive' = alive
                    /\ pc' = "idle"
                    /\ reqs' = deployLocalReqs(Target, up, dep)
                    /\ runServerMap' =
                          IF up.st = "ok" /\ dep.st = "ok"
                          THEN rememberRun(runServerMap, dep.body, result.url)
                          ELSE runServerMap
                    /\ result' =
                          IF unlinked
                          THEN [Done(deployLocalTry(up, dep)) EXCEPT !.tmp = "removed"]
                          ELSE [Done(Caught("CleanupError")) EXCEPT !.tmp = "left"]
    /\ TailFrame

\* A status handler that forgets the server of a run whose status request
\* failed.
runsAfterStatusEvict(m, run, r) ==
    IF r.st = "ok" THEN m ELSE [x \in DOMAIN m \ {run} |-> m[x]]

\* handleGetDeploymentStatus does not write the run map, whatever the answer
\* to its request.
runsAfterStatus(m, run, r) == m

\* handleGetDeploymentStatus after getServerUrlForRun
StatusTail ==
    /\ alive /\ pc = "run"
    /\ \E r \in RunResponses :
          /\ reqs' = <<Req("status", Target, r)>>
          /\ result' = Done(IF r.st = "ok" THEN Ok("RunStatus")
                            ELSE Caught(thrownBy(r, "GetStatusFailed")))
          /\ runServerMap' = runsAfterStatus(runServerMap, call.arg, r)
    /\ pc' = "idle"
    /\ UNCHANGED alive
    /\ TailFrame

(***************************************************************************)
(* The tool-level specification: the host sends one tool call after the    *)
(* other.                                                                  *)
(***************************************************************************)
Next ==
    \/ CallGetInstructions
    \/ CallCheckAuthStatus
    \/ CallAuthenticate
    \/ CallUnknown
    \/ CallListServers
    \/ CallListApps
    \/ ListingStep
    \/ CallAppTool
    \/ GetAppInfoTail
    \/ DeployFromGitTail
    \/ DeployFromLocalTail
    \/ ListRunsTail
    \/ OpenAppUrlTail
    \/ CallGetDeploymentStatus
    \/ ProbeStep
    \/ StatusTail

Spec == Init /\ [][Next]_vars

(***************************************************************************)
(* The handshake of authenticate step by step: one step per request to the *)
(* identity provider, so that every sequence of poll answers is covered.   *)
(***************************************************************************)
\* handleAuthenticate up to the answer to POST /auth/device/init
AuthStart ==
    /\ alive /\ pc = "idle"
    /\ held' = EmptyMap
    /\ call' = CallOf("authenticate", "-")
    /\ reqs' = <<>>
    /\ \E r \in InitResponses :
          LET f == afterInit(r) IN
          IF f.pc = "poll"
          THEN /\ flow' = f
               /\ pc' = "auth"
               /\ result' = Pending
               /\ UNCHANGED <<config, file, perm, servers, appServerMap, runServerMap>>
          ELSE finishAuthenticate(f)
    /\ UNCHANGED <<alive, now>>

\* One iteration of the poll loop
AuthPoll ==
    /\ alive /\ pc = "auth" /\ flow.pc = "poll"
    /\ held' = EmptyMap
    /\ \E r \in PollResponses :
          LET f == afterPoll(flow, r) IN
          IF f.pc \in {"poll", "token"}
          THEN /\ flow' = f
               /\ UNCHANGED <<pc, result, config, file, perm, servers, appServerMap,
                              runServerMap>>
          ELSE finishAuthenticate(f)
    /\ UNCHANGED <<alive, now, call, reqs>>

\* The token exchange, saveConfig and the rest of handleAuthenticate
AuthToken ==
    /\ alive /\ pc = "auth" /\ flow.pc = "token"
    /\ held' = EmptyMap
    /\ \E r \in TokenResponses, saveOk \in BOOLEAN :
          finishAuthenticate(afterToken(flow, r, now, saveOk))
    /\ UNCHANGED <<alive, now, call, reqs>>

NextFlow ==
    \/ AuthStart
    \/ AuthPoll
    \/ AuthToken
    \/ CallCheckAuthStatus
    \/ CallListServers

SpecFlow == Init /\ [][NextFlow]_vars

(***************************************************************************)
(* The credential store over time: any content of the credential file at   *)
(* start, and a clock that advances between tool calls.                    *)
(***************************************************************************)
InitStore ==
    /\ InitMemory
    /\ file \in BadFiles \cup {FileOf("bundle", e) : e \in 0..MaxTime}
    /\ perm \in ModesAround(file)

Tick ==
    /\ alive /\ pc = "idle"
    /\ held' = EmptyMap
    /\ now < MaxTime
    /\ now' = now + 1
    /\ UNCHANGED <<alive, file, perm, config, servers, appServerMap, runServerMap,
                   pc, call, reqs, result, flow>>

NextStore ==
    \/ Tick
    \/ CallCheckAuthStatus
    \/ CallListServers
    \/ CallAuthenticate

SpecStore == InitStore /\ [][NextStore]_vars

(***************************************************************************)
(* Properties of the routing cache.                                        *)
(***************************************************************************)
\* The requests of one kind in the log of the current operation, and the
\* number of elements of the array a listing answered with.
ListingLog == Ops(reqs, "apps")
ProbeLog == Ops(reqs, "probe")
DiscoveryLog == Ops(reqs, "discover")
Returned(body) == IF body.t = "arr" THEN Len(body.v) ELSE 0

\* C1: cache-hit purity.  When an authenticated call resolves the server of
\* an app whose name is a key of the app->server map, the lookup returns the
\* server_url stored under that name, sends no request, and leaves the
\* server set, the app map and the run map as they were.
C1_CacheHitPurity ==
    [][\A n \in AppNames :
          (CallAppTool /\ call'.arg = n /\ Authed # NoConfig
                /\ n \in DOMAIN appServerMap)
          => /\ pc' = "app"
             /\ result'.url = appServerMap[n].server_url
             /\ reqs' = <<>>
             /\ UNCHANGED <<servers, appServerMap, runServerMap>>]_vars

\* A lookup has just been answered from the map.
C1_Witness ==
    /\ pc = "app" /\ reqs = <<>>
    /\ call.arg \in DOMAIN appServerMap
    /\ result.url = appServerMap[call.arg].server_url

\* An app refresh has run to its end: list_apps returned its text, or the
\* lookup that called it went on to its second map lookup.
RefreshCompleted ==
    \/ pc = "idle" /\ call.tool = "list_apps"
                   /\ result.kind \in {"NoServers", "NoApps", "Apps"}
    \/ pc = "app" /\ reqs # <<>>
    \/ pc = "idle" /\ call.tool \in AppTools /\ result.kind = "AppNotFound"

\* Entry e of the map was returned by a listing of the refresh in the log.
ReturnedInRefresh(e) ==
    \E i \in 1..Len(ListingLog) :
        /\ ListingLog[i].st = "ok"
        /\ ServerUrl(ListingLog[i].to) = e.server_url
        /\ ListingLog[i].body.t = "arr"
        /\ \E j \in 1..Len(ListingLog[i].body.v) :
              appNameOf(ListingLog[i].body.v[j]) = e.app_name

\* C2: refresh replaces, never merges.  After every completed app refresh,
\* an empty server set and failing listings included, every entry of the
\* app->server map was returned by a server during that refresh.
C2_RefreshReplaces ==
    RefreshCompleted =>
        \A n \in DOMAIN appServerMap :
            /\ appServerMap[n].app_name = n
            /\ ReturnedInRefresh(appServerMap[n])

\* C3: partial-failure tolerance.  list_apps over a non-empty server set asks
\* every server of the set once, in order, whatever the other servers
\* answered; it ends without an error, and the total it reports is the sum
\* of the numbers of apps the servers that answered returned.
C3_PartialFailure ==
    (pc = "idle" /\ call.tool = "list_apps" /\ ListingLog # <<>>)
    => /\ ~result.isError
       /\ Len(ListingLog) = Len(servers)
       /\ \A i \in 1..Len(servers) : ListingLog[i].to = servers[i]
       /\ result.total =
            SumSeq([i \in 1..Len(ListingLog) |->
                      IF ListingLog[i].st = "ok"
                      THEN Returned(ListingLog[i].body) ELSE 0])

\* list_apps has ended with one server failing and another returning apps.
C3_Witness ==
    /\ pc = "idle" /\ call.tool = "list_apps"
    /\ Len(ListingLog) >= 2
    /\ \E i \in 1..Len(ListingLog) : ListingLog[i].st # "ok"
    /\ \E i \in 1..Len(ListingLog) : ListingLog[i].st = "ok"
    /\ result.total > 0 /\ ~result.isError

\* The probe loop has just found the run: it asked the servers of the set in
\* order from the first, every one before the last failed, the last answered
\* 2xx, and its URL is both returned and recorded for the run.
ProbeFound ==
    (pc = "run" /\ reqs # <<>>)
    => LET k == Len(ProbeLog) IN
       /\ k >= 1 /\ k <= Len(servers)
       /\ \A i \in 1..k : /\ ProbeLog[i].to = servers[i]
                          /\ (ProbeLog[i].st = "ok") = (i = k)
       /\ result.url = ServerUrl(servers[k])
       /\ call.arg \in DOMAIN runServerMap
       /\ runServerMap[call.arg] = result.url

\* C4: run-probe order and memoization.  Resolving a run that is not in the
\* run map probes the servers in set order and stops at the first 2xx
\* answer; that server's URL is returned and recorded in the run map, and
\* resolving a recorded run returns the recorded URL without any request.
C4_ProbeOrderAndMemo ==
    [][/\ ProbeFound'
       /\ (pc' = "probing" => call'.arg \notin DOMAIN runServerMap')
       /\ \A run \in RunIds :
            (CallGetDeploymentStatus /\ call'.arg = run /\ Authed # NoConfig
                  /\ run \in DOMAIN runServerMap)
            => /\ pc' = "run"
               /\ reqs' = <<>>
               /\ result'.url = runServerMap[run]
               /\ runServerMap' = runServerMap]_vars

\* The run was found on the second server probed.
C4_Witness ==
    /\ pc = "run" /\ Len(ProbeLog) = 2
    /\ ProbeLog[1].st # "ok" /\ ProbeLog[2].st = "ok"
    /\ runServerMap[call.arg] = ServerUrl(servers[2])

\* Resolving the server of a run has failed.
RunLookupFailed ==
    /\ pc = "idle" /\ call.tool = "get_deployment_status"
    /\ result.kind # "NotAuthenticated"
    /\ Ops(reqs, "status") = <<>>

DiscoveryFailed == DiscoveryLog # <<>> /\ DiscoveryLog[1].st # "ok"

\* A call ends as "run not found" exactly when the lookup probed every server
\* of the set and none answered 2xx; a discovery that fails has its own,
\* different error and probes nothing, and so has a failed status request.
RunNotFoundCase ==
    /\ (pc = "idle" /\ result.kind = "RunNotFound")
         => (RunLookupFailed /\ ~DiscoveryFailed)
    /\ RunLookupFailed
         => /\ result.isError
            /\ call.arg \notin DOMAIN runServerMap
            /\ IF DiscoveryFailed
               THEN /\ result.kind \in {"FetchServersFailed", "NetworkError"}
                    /\ ProbeLog = <<>>
               ELSE /\ result.kind = "RunNotFound"
                    /\ Len(ProbeLog) = Len(servers)
                    /\ \A i \in 1..Len(servers) : /\ ProbeLog[i].to = servers[i]
                                                  /\ ProbeLog[i].st # "ok"

\* C5: run-not-found.  When every server of the set has been probed for a
\* run and none answered 2xx, resolving the run fails with a "run not found"
\* error, which is not the error of a failed request, and no step of the
\* failed lookup adds anything to the run map.
C5_RunNotFound ==
    [][/\ RunNotFoundCase'
       /\ ((CallGetDeploymentStatus \/ ProbeStep) /\ pc' # "run")
            => runServerMap' = runServerMap]_vars

\* Two servers were probed, one refused and one was unreachable.
C5_Witness ==
    /\ RunLookupFailed /\ result.kind = "RunNotFound"
    /\ Len(ProbeLog) = 2
    /\ \E i \in 1..2 : ProbeLog[i].st = "http"
    /\ \E i \in 1..2 : ProbeLog[i].st = "net"

\* A lookup that resolved after a refresh: at most one discovery, then one
\* listing per server of the set, in order.
ResolvedAfterListing ==
    (pc = "app" /\ reqs # <<>>)
    => /\ Len(DiscoveryLog) <= 1
       /\ reqs = DiscoveryLog \o ListingLog
       /\ Len(ListingLog) = Len(servers) /\ servers # <<>>
       /\ \A i \in 1..Len(servers) : ListingLog[i].to = servers[i]
       /\ call.arg \in DOMAIN appServerMap

\* C6: re-authentication invalidation.  A successful authenticate leaves the
\* server set, the app map and the run map empty; an app lookup from empty
\* caches starts with a discovery request and resolves only after the
\* listing of every discovered server.
C6_ReauthInvalidates ==
    [][/\ (CallAuthenticate /\ ~result'.isError)
            => /\ result'.kind = "AuthenticatedAs"
               /\ config' # NoConfig
               /\ servers' = <<>>
               /\ appServerMap' = EmptyMap
               /\ runServerMap' = EmptyMap
       /\ (CallAppTool /\ Authed # NoConfig
                /\ servers = <<>> /\ appServerMap = EmptyMap)
            => /\ Len(reqs') = 1 /\ reqs'[1].op = "discover"
               /\ pc' # "app"
       /\ ResolvedAfterListing']_vars

\* authenticate has just succeeded and the caches are empty.
C6_Witness ==
    /\ pc = "idle" /\ call.tool = "authenticate"
    /\ result.kind = "AuthenticatedAs" /\ flow.pc = "done"
    /\ config # NoConfig
    /\ servers = <<>> /\ appServerMap = EmptyMap /\ runServerMap = EmptyMap

(***************************************************************************)
(* Properties of the credential store and of the handshake.                *)
(***************************************************************************)
\* C7: expiry enforcement on load.  Loading the credential file returns the
\* bundle when the file holds a well-formed bundle whose expiry instant is
\* not in the past, returns no bundle for every other file (absent,
\* unreadable, malformed, expired), and never raises an error.
C7_ExpiryOnLoad ==
    [][CallCheckAuthStatus
         => /\ config' = IF file.kind = "bundle" /\ file.expires_at >= now
                         THEN file ELSE NoConfig
            /\ ~result'.isError]_vars

\* C8: device-flow termination.  authenticate sends at most maxAttempts
\* status polls and every iteration of its loop counts as one; when the
\* last of them still reads a non-terminal status the handshake fails with a
\* timeout, without a token exchange and without writing the credential
\* file; a poll that reads "authorized", the last one included, goes on to
\* the token exchange.
C8_DeviceFlowTermination ==
    [][/\ flow'.polls <= maxAttempts
       /\ (flow'.pc = "poll" => flow'.polls < maxAttempts)
       /\ AuthPoll
            => /\ flow'.polls = flow.polls + 1
               /\ (flow'.last = "authorized")
                    => (flow'.pc = "token" /\ flow'.err = "none" /\ pc' = "auth")
               /\ (flow'.last \in NonTerminal /\ flow'.polls = maxAttempts)
                    => (flow'.pc = "failed" /\ flow'.err = "AuthorizationTimeout")
               /\ (flow'.err = "AuthorizationTimeout")
                    => /\ flow'.polls = maxAttempts
                       /\ ~flow'.token /\ ~flow'.saved
                       /\ result'.isError /\ pc' = "idle"
                       /\ file' = file /\ config' = config]_vars

\* The handshake has timed out after the last poll the cap allows.
C8_Witness ==
    /\ pc = "idle" /\ call.tool = "authenticate"
    /\ flow.pc = "failed" /\ flow.err = "AuthorizationTimeout"
    /\ flow.polls = maxAttempts /\ flow.last = "pending"
    /\ result.isError

(***************************************************************************)
(* Properties of the lookup by app name and of the dispatcher.             *)
(***************************************************************************)
\* A lookup by app name that missed has failed: the call ended before its
\* handler got a URL.
LookupFailed ==
    /\ pc = "idle" /\ call.tool \in AppTools
    /\ result.isError /\ result.url = NoUrl
    /\ result.kind # "NotAuthenticated"

\* A lookup by app name that missed has ended, either way.
MissEnded == LookupFailed \/ (pc = "app" /\ reqs # <<>>)

\* One refresh and no more: at most one discovery, then at most one listing
\* per server of the set, in set order.
OneRefresh ==
    /\ Len(DiscoveryLog) <= 1
    /\ reqs = DiscoveryLog \o ListingLog
    /\ Len(ListingLog) <= Len(servers)
    /\ \A i \in 1..Len(ListingLog) : ListingLog[i].to = servers[i]

\* C9 as stated: a lookup that missed does one refresh and looks the name up
\* once more; it then returns the URL of the entry the refresh stored, or
\* fails with the application-not-found error and with no other error.
C9_AppLookupMiss_AsStated ==
    MissEnded
    => /\ OneRefresh
       /\ IF call.arg \in DOMAIN appServerMap
          THEN pc = "app" /\ result.url = appServerMap[call.arg].server_url
          ELSE LookupFailed /\ result.kind = "AppNotFound"

\* C9: app lookup miss.  A lookup that missed does one refresh.  When the
\* discovery of that refresh fails, the lookup fails with the discovery's
\* error and lists nothing; otherwise every server of the set is listed once
\* and the name is looked up once more: the lookup returns the URL of the
\* entry found, or fails with the application-not-found error.
C9_AppLookupMiss ==
    MissEnded
    => /\ OneRefresh
       /\ IF DiscoveryFailed
          THEN /\ LookupFailed
               /\ result.kind \in {"FetchServersFailed", "NetworkError"}
               /\ ListingLog = <<>>
          ELSE /\ Len(ListingLog) = Len(servers)
               /\ IF call.arg \in DOMAIN appServerMap
                  THEN pc = "app" /\ result.url = appServerMap[call.arg].server_url
                  ELSE LookupFailed /\ result.kind = "AppNotFound"

\* A refresh listed a server that answered, and the name was still missing.
C9_Witness ==
    /\ LookupFailed /\ result.kind = "AppNotFound"
    /\ \E i \in 1..Len(ListingLog) : ListingLog[i].st = "ok"
    /\ call.arg \notin DOMAIN appServerMap

\* A request whose failure the handler does not swallow.
Swallowed == {"apps", "probe"}
LastRequestFailed ==
    /\ reqs # <<>>
    /\ reqs[Len(reqs)].op \notin Swallowed
    /\ reqs[Len(reqs)].st # "ok"

\* C10: dispatch boundary never throws.  Whatever tool is called and
\* whatever fails behind it, the call returns a result, a failure returns a
\* result flagged as an error, and the process goes on to serve the next
\* call.
C10_DispatchBoundary ==
    /\ alive
    /\ pc # "crashed"
    /\ (pc = "idle" /\ LastRequestFailed) => result.isError
    /\ (pc = "idle" /\ call.tool = "no_such_tool") => result.isError

(***************************************************************************)
(* Properties of the credential in memory.                                 *)
(***************************************************************************)
\* The first step of a call of a tool behind ensureAuth, and of an exempt one.
GatedCall ==
    CallListServers \/ CallListApps \/ CallAppTool \/ CallGetDeploymentStatus
ExemptCall ==
    \/ CallGetInstructions
    \/ CallCheckAuthStatus
    \/ pc = "idle" /\ call'.tool = "authenticate"

\* No credential in memory and none to be had from the store.
NoCredential == config = NoConfig /\ loadConfig(file, now) = NoConfig

\* C11: credential gating.  A call of a tool other than authenticate,
\* check_auth_status and get_instructions, made with no credential in memory
\* and none in the store, sends no request, leaves the server set and both
\* maps as they were and returns the not-authenticated error; with a
\* credential the call goes on with that credential in memory.  The three
\* exempt tools never return the not-authenticated error, and
\* get_instructions does not touch the credential in memory.
C11_CredentialGating ==
    [][/\ (GatedCall /\ NoCredential)
            => /\ reqs' = <<>>
               /\ UNCHANGED <<servers, appServerMap, runServerMap, config>>
               /\ pc' = "idle"
               /\ result'.isError /\ result'.kind = "NotAuthenticated"
       /\ (GatedCall /\ ~NoCredential)
            => /\ result'.kind # "NotAuthenticated"
               /\ config' # NoConfig
               /\ config # NoConfig => config' = config
       /\ ExemptCall => result'.kind # "NotAuthenticated"
       /\ CallGetInstructions => config' = config]_vars

\* A gated tool has just been refused for want of a credential.
C11_Witness ==
    /\ pc = "idle" /\ call.tool \in KnownTools
    /\ result.isError /\ result.kind = "NotAuthenticated"
    /\ config = NoConfig /\ reqs = <<>>

\* C12: a bundle is usable only before its expiry instant.  No tool call
\* sends an authenticated request with a bundle whose expiry instant is at
\* or before the current time, whether the bundle was loaded just now or
\* earlier.
C12_UsableBeforeExpiry ==
    [][(CallListServers /\ reqs' # <<>> /\ config'.kind = "bundle")
         => now < config'.expires_at]_vars

(***************************************************************************)
(* Properties of the server set and of the run map.                        *)
(***************************************************************************)
\* The server list a 2xx answer of the discovery endpoint carries: the array
\* in its data field, none when the field is not there.
ListReturned(body) == IF body.env /\ body.t = "arr" THEN body.v ELSE <<>>

\* C13: listServers replaces.  An authenticated list_servers sends exactly
\* one discovery request whatever the server set holds; when it is answered
\* 2xx the server set becomes exactly the returned list, and when it fails
\* the call fails and the server set stays.
C13_ListServersReplaces ==
    [][(CallListServers /\ Authed # NoConfig)
         => /\ Len(reqs') = 1 /\ reqs'[1].op = "discover"
            /\ IF reqs'[1].st = "ok"
               THEN servers' = ListReturned(reqs'[1].body) /\ ~result'.isError
               ELSE servers' = servers /\ result'.isError]_vars

\* list_servers has just been answered with a one-server list.
C13_Witness ==
    /\ pc = "idle" /\ call.tool = "list_servers"
    /\ Len(reqs) = 1 /\ reqs[1].st = "ok"
    /\ Len(servers) = 1 /\ servers = ListReturned(reqs[1].body)

\* The first step of an authenticated call that runs listApps, of one that
\* resolves the server of a run, and of one that resolves a run not in the
\* run map.
ListAppsStarts ==
    /\ Authed # NoConfig
    /\ \/ CallListApps
       \/ CallAppTool /\ call'.arg \notin DOMAIN appServerMap
RunLookupStarts == CallGetDeploymentStatus /\ Authed # NoConfig
RunMissStarts == RunLookupStarts /\ call'.arg \notin DOMAIN runServerMap

\* The step asks the discovery endpoint exactly when the server set is empty,
\* and leaves a populated server set as it is.
DiscoversIffEmpty ==
    /\ (Ops(reqs', "discover") # <<>>) = (servers = <<>>)
    /\ servers # <<>> => servers' = servers

\* A populated server set changes only in list_servers and authenticate.
PopulatedSetChanges ==
    (servers # <<>> /\ servers' # servers)
    => /\ pc = "idle"
       /\ call'.tool \in {"list_servers", "authenticate"}

\* C14 as stated: listApps and every resolution of the server of a run ask
\* the discovery endpoint if and only if the server set is empty.
C14_StalenessPolicy_AsStated ==
    [][/\ (ListAppsStarts \/ RunLookupStarts) => DiscoversIffEmpty
       /\ PopulatedSetChanges]_vars

\* C14: server-set staleness policy.  listApps, and the resolution of the
\* server of a run that is not in the run map, ask the discovery endpoint if
\* and only if the server set is empty at that moment; a populated set is
\* left as it is, and only list_servers and authenticate change one.  A run
\* found in the run map is resolved without discovery even when the server
\* set is empty.
C14_StalenessPolicy ==
    [][/\ (ListAppsStarts \/ RunMissStarts) => DiscoversIffEmpty
       /\ (RunLookupStarts /\ ~RunMissStarts)
            => (reqs' = <<>> /\ servers' = servers)
       /\ PopulatedSetChanges]_vars

\* A lookup that missed went on with the populated set, without discovery.
C14_Witness ==
    /\ pc \in {"listing", "probing"}
    /\ servers # <<>> /\ DiscoveryLog = <<>>

\* The step is a successful authenticate.
AuthenticateSucceeds ==
    /\ call'.tool = "authenticate"
    /\ result'.kind = "AuthenticatedAs"

\* C15: the run map only grows.  Every step other than a successful
\* authenticate leaves every run id of the run->server map in the map.
C15_RunMapGrows ==
    [][~AuthenticateSucceeds
         => DOMAIN runServerMap \subseteq DOMAIN runServerMap']_vars

\* The map holds every run id, each added by a different call.
C15_Witness ==
    /\ DOMAIN runServerMap = RunIds
    /\ pc = "idle" /\ ~result.isError
    /\ call.tool \in {"deploy_from_git", "deploy_from_local",
                      "list_deployment_runs"}

(***************************************************************************)
(* Properties of deploy_from_local's temporary archive.                    *)
(***************************************************************************)
\* C16: scoped archive temp file.  In deploy_from_local the temporary
\* archive exists before the upload request is sent, and once the call has
\* ended, however it ended (a removal that itself failed set aside), no
\* temporary archive of that call is left on disk.
C16_ScopedArchive ==
    /\ (Ops(reqs, "upload") # <<>>) => result.tmp # "none"
    /\ (pc = "idle" /\ call.tool = "deploy_from_local"
            /\ result.kind # "CleanupError")
         => result.tmp # "left"

(***************************************************************************)
(* Further properties of the handshake.                                    *)
(***************************************************************************)
\* C18: device-flow poll outcomes.  A poll that reads "authorized" ends the
\* polling and the token exchange follows; one that reads "expired" or
\* "denied" ends authenticate with the failure of that name; one that reads
\* any other status is followed by another poll unless it was the last the
\* cap allows; and the token exchange is requested only after a poll that
\* read "authorized".
C18_PollOutcomes ==
    [][/\ AuthPoll
            => /\ (flow'.last = "authorized")
                    => (flow'.pc = "token" /\ pc' = "auth" /\ ~flow'.token)
               /\ (flow'.last = "expired")
                    => /\ flow'.pc = "failed" /\ pc' = "idle"
                       /\ result'.isError
                       /\ result'.kind = "AuthorizationExpired"
               /\ (flow'.last = "denied")
                    => /\ flow'.pc = "failed" /\ pc' = "idle"
                       /\ result'.isError
                       /\ result'.kind = "AuthorizationDenied"
               /\ (flow'.last \in NonTerminal /\ flow'.polls < maxAttempts)
                    => (flow'.pc = "poll" /\ pc' = "auth")
       /\ AuthToken => flow.last = "authorized"
       /\ flow'.token => flow'.last = "authorized"]_vars

\* The user has denied the request after polls that read other statuses.
C18_Witness ==
    /\ pc = "idle" /\ call.tool = "authenticate"
    /\ flow.last = "denied" /\ flow.polls >= 2
    /\ result.kind = "AuthorizationDenied"

\* The errors authenticate throws for a non-2xx answer, one per HTTP step.
HttpStepErrors == {"DeviceInitFailed", "StatusCheckFailed", "TokenExchangeFailed"}

\* C19: device-flow fail-fast.  A non-2xx answer at the device init, at a
\* status poll or at the token exchange ends authenticate at that step with
\* an error that names the HTTP status; no further handshake request is
\* sent and nothing is written to the credential store or to memory.
C19_FailFast ==
    [][((AuthStart \/ AuthPoll \/ AuthToken) /\ flow'.err \in HttpStepErrors)
         => /\ flow'.pc = "failed" /\ pc' = "idle"
            /\ result'.isError /\ result'.kind = flow'.err
            /\ ~flow'.saved
            /\ (flow'.err # "TokenExchangeFailed" => ~flow'.token)
            /\ UNCHANGED <<file, config, servers, appServerMap, runServerMap>>
            /\ statusSurfaced(flow'.err)]_vars

\* C20: credential bundle lifecycle.  Once a bundle is in memory, the only
\* step that changes it is a successful authenticate, which puts the fresh
\* bundle in its place; no other tool call, check_auth_status included,
\* changes or drops it, and the store is not read again.
C20_BundleLifecycle ==
    [][(config # NoConfig /\ config' # config)
         => (AuthenticateSucceeds /\ config' = flow'.bundle
                /\ config'.kind = "bundle")]_vars

(***************************************************************************)
(* Properties of the credential store's permissions.                       *)
(***************************************************************************)
\* C21: owner-only credential storage.  After every authenticate that saved
\* the bundle, whatever directory and file were there before and with
\* whatever modes, the credential file is readable and writable by its owner
\* only, its directory is the owner's only, and the file holds the new
\* bundle.
C21_OwnerOnlyStorage ==
    [][(AuthenticateSucceeds /\ flow'.saved)
         => /\ perm'.file \in OwnerOnly
            /\ perm'.dir \in OwnerOnly
            /\ file' = flow'.bundle]_vars

(***************************************************************************)
(* Further properties of the run lookup.                                   *)
(***************************************************************************)
\* C22: probe failures are swallowed per server.  In the probe loop of a run
\* lookup that missed, the i-th probe goes to the i-th server of the set
\* whatever the earlier probes answered; a network error or a non-2xx answer
\* from a server that is not the last is followed by the probe of the next
\* server, without an error; and the lookup succeeds exactly when a probe is
\* answered 2xx, failing only after every server of the set has failed.
C22_ProbeFailuresSwallowed ==
    [][ProbeStep
         => LET log == Ops(reqs', "probe")
                i == Len(log)
            IN  /\ i = Len(ProbeLog) + 1
                /\ log[i].to = servers[i]
                /\ servers' = servers
                /\ (log[i].st # "ok" /\ i < Len(servers))
                     => (pc' = "probing" /\ ~result'.isError)
                /\ (pc' = "run") = (log[i].st = "ok")
                /\ (pc' = "idle")
                     => /\ i = Len(servers)
                        /\ \A j \in 1..i : log[j].st # "ok"
                        /\ result'.isError]_vars

\* The first server was unreachable and the second had the run.
C22_Witness ==
    /\ pc = "run" /\ Len(ProbeLog) = 2
    /\ ProbeLog[1].st = "net" /\ ProbeLog[1].to = servers[1]
    /\ ProbeLog[2].st = "ok" /\ ProbeLog[2].to = servers[2]
    /\ ~result.isError

(***************************************************************************)
(* Properties of the deploy handlers.                                      *)
(***************************************************************************)
\* The deploy request of the step just taken, if it sent one, and the run id
\* its answer carries ("none" when it carries none).
DeployTail == DeployFromGitTail \/ DeployFromLocalTail
DeployLog == SelectSeq(reqs, LAMBDA e : e.op \in {"deploy", "deployLocal"})
RunIdIn(body) == IF body.v # <<>> THEN body.v[1] ELSE "none"

\* C23: deploy memoizes the run's server.  A deploy_from_git or
\* deploy_from_local that succeeds with run id R for an app resolved to URL
\* U leaves R -> U in the run map and every other entry as it was; a deploy
\* whose request is refused or fails leaves the run map as it was; and
\* resolving a run that is in the run map returns the recorded URL without
\* any request.
C23_DeployMemoizes ==
    [][/\ (DeployTail /\ pc' = "idle" /\ ~result'.isError)
            => /\ DeployLog' # <<>> /\ DeployLog'[1].st = "ok"
               /\ result.url = appServerMap[call.arg].server_url
               /\ LET R == RunIdIn(DeployLog'[1].body) IN
                  IF R = "none"
                  THEN runServerMap' = runServerMap
                  ELSE /\ R \in DOMAIN runServerMap'
                       /\ runServerMap'[R] = result.url
                       /\ \A q \in DOMAIN runServerMap \ {R} :
                             /\ q \in DOMAIN runServerMap'
                             /\ runServerMap'[q] = runServerMap[q]
                       /\ DOMAIN runServerMap' = DOMAIN runServerMap \cup {R}
       /\ (DeployTail /\ \E i \in 1..Len(reqs') : reqs'[i].st # "ok")
            => runServerMap' = runServerMap
       /\ \A R \in RunIds :
            (CallGetDeploymentStatus /\ call'.arg = R /\ Authed # NoConfig
                  /\ R \in DOMAIN runServerMap)
            => /\ pc' = "run" /\ result'.url = runServerMap[R]
               /\ Ops(reqs', "probe") = <<>> /\ reqs' = <<>>]_vars

\* A deploy to an app of the second server has just recorded its run there.
C23_Witness ==
    /\ pc = "idle" /\ call.tool \in {"deploy_from_git", "deploy_from_local"}
    /\ ~result.isError
    /\ DeployLog # <<>> /\ DeployLog[1].st = "ok"
    /\ RunIdIn(DeployLog[1].body) \in DOMAIN runServerMap
    /\ runServerMap[RunIdIn(DeployLog[1].body)] = result.url
    /\ result.url = ServerUrl(2)

(***************************************************************************)
(* Cost of the routing operations.                                         *)
(***************************************************************************)
\* No request of the log repeats an earlier one that failed.
NoReissue ==
    \A i, j \in 1..Len(reqs) :
        (i < j /\ reqs[i].st # "ok")
        => ~(reqs[i].op = reqs[j].op /\ reqs[i].to = reqs[j].to)

\* A lookup by app name that missed, and a run lookup that missed, under way
\* or just ended: reqs is the log of the lookup.
AppMissLog == call.tool \in AppTools /\ (pc = "listing" \/ MissEnded)
RunMissLog ==
    /\ call.tool = "get_deployment_status"
    /\ pc = "probing" \/ (pc = "run" /\ reqs # <<>>) \/ RunLookupFailed

\* C24: no automatic retries, linear cost.  No request that failed is sent
\* again in the same tool call; a lookup by app name sends at most one
\* discovery request and one listing request per server of the set, and a
\* run lookup at most one discovery request and one probe per server: at
\* most 1 + N requests for a set of N servers.
C24_NoRetryLinearCost ==
    [][/\ NoReissue'
       /\ AppMissLog'
            => /\ Len(DiscoveryLog') <= 1
               /\ Len(ListingLog') <= Len(servers')
               /\ reqs' = DiscoveryLog' \o ListingLog'
               /\ Len(reqs') <= 1 + Len(servers')
       /\ RunMissLog'
            => /\ Len(DiscoveryLog') <= 1
               /\ Len(ProbeLog') <= Len(servers')
               /\ reqs' = DiscoveryLog' \o ProbeLog'
               /\ Len(reqs') <= 1 + Len(servers')
       /\ StatusTail
            => \A i \in 1..Len(reqs) :
                  (reqs[i].op = "probe" /\ reqs[i].st # "ok")
                  => reqs[i].to # reqs'[1].to]_vars

\* A run lookup over two discovered servers has failed at its full cost: the
\* discovery and one probe of each server.
C24_Witness ==
    /\ RunMissLog /\ pc = "idle"
    /\ Len(servers) = 2 /\ Len(reqs) = 3
    /\ Len(DiscoveryLog) = 1 /\ Len(ProbeLog) = 2
    /\ ProbeLog[1].st = "net" /\ ProbeLog[1].to # ProbeLog[2].to

(***************************************************************************)
(* Properties of the response envelope.                                    *)
(***************************************************************************)
\* The content of the data field of a body that has one, the body itself
\* otherwise.
DataOrBody(body) == [t |-> body.t, v |-> body.v]
UnwrappingTool == {"get_app_info", "list_deployment_runs"}

\* C25: envelope unwrapping.  The value a handler takes out of a 2xx
\* response body is the content of the body's data field whenever the body
\* has one, whatever that content (null and an empty list included), and the
\* body itself only when it has no data field.
C25_EnvelopeUnwrapping ==
    (pc = "idle" /\ call.tool \in UnwrappingTool
        /\ reqs # <<>> /\ reqs[Len(reqs)].op \in {"info", "runs"}
        /\ reqs[Len(reqs)].st = "ok")
    => result.payload = DataOrBody(reqs[Len(reqs)].body)

(***************************************************************************)
(* Frame properties of failed operations.                                  *)
(***************************************************************************)
\* The ways authenticate fails: at the device init, at a poll, by an expired
\* or denied request, by the timeout, at the token exchange, at the save.
AuthFailures ==
    {"NetworkError", "DeviceInitFailed", "StatusCheckFailed",
     "AuthorizationExpired", "AuthorizationDenied", "AuthorizationTimeout",
     "TokenExchangeFailed", "SaveFailed"}

\* C26: a failed authentication changes nothing in memory.  When
\* authenticate fails, at whatever step, the credential bundle in memory,
\* the server set, the app map and the run map are what they were before the
\* call; and authenticate fails only in one of the ways listed.
C26_FailedAuthFrame ==
    [][(CallAuthenticate /\ result'.kind # "AuthenticatedAs")
         => /\ result'.isError /\ result'.kind \in AuthFailures
            /\ UNCHANGED <<config, servers, appServerMap, runServerMap>>]_vars

\* authenticate has failed at the save with a bundle in memory and all three
\* caches populated.
C26_Witness ==
    /\ pc = "idle" /\ call.tool = "authenticate"
    /\ result.isError /\ result.kind = "SaveFailed"
    /\ config # NoConfig /\ servers # <<>>
    /\ appServerMap # EmptyMap /\ runServerMap # EmptyMap

\* The first step of a call that may ask the discovery endpoint.
DiscoveringCall ==
    CallListServers \/ CallListApps \/ CallAppTool \/ CallGetDeploymentStatus

\* C27: a failed discovery changes nothing.  Whenever the discovery request
\* fails, in list_servers, in list_apps, in a lookup by app name that missed
\* or in a run lookup that missed, the call ends there with the discovery's
\* error, and the server set, the app map (which is not cleared) and the run
\* map are what they were.
C27_FailedDiscoveryFrame ==
    [][(DiscoveringCall /\ reqs' # <<>> /\ reqs'[1].op = "discover"
            /\ reqs'[1].st # "ok")
         => /\ Len(reqs') = 1
            /\ pc' = "idle" /\ result'.isError
            /\ result'.kind = (IF reqs'[1].st = "net" THEN "NetworkError"
                                                      ELSE "FetchServersFailed")
            /\ UNCHANGED <<servers, appServerMap, runServerMap>>]_vars

\* A refresh of the app list has failed at its discovery with entries in the
\* app map and in the run map.
C27_Witness ==
    /\ pc = "idle" /\ call.tool \in AppTools \cup {"list_apps"}
    /\ DiscoveryFailed /\ result.isError
    /\ appServerMap # EmptyMap /\ runServerMap # EmptyMap

(***************************************************************************)
(* Properties of the app map's entries.                                    *)
(***************************************************************************)
\* Server s is in the list.
InSet(s, list) == \E i \in 1..Len(list) : list[i] = s

\* Every entry of the app map points at a server of the server set.
AllKnown ==
    \A n \in DOMAIN appServerMap :
        /\ InSet(appServerMap[n].server_slug, servers)
        /\ appServerMap[n].server_url = ServerUrl(appServerMap[n].server_slug)

\* C28 as stated: in every reachable state the URL of every entry of the app
\* map is the HTTPS base URL of a server of the current server set.
C28_KnownServers_AsStated == AllKnown

\* C28: routing entries point at servers known when they were stored.  The
\* URL of every entry of the app map is the HTTPS base URL of its server; an
\* entry is stored or changed only by a listing of an app refresh, for a
\* server that is in the server set at that moment; and the entries stop
\* pointing into the current server set only when list_servers replaces the
\* set, which leaves the app map as it was.
C28_KnownServers ==
    [][/\ \A n \in DOMAIN appServerMap' :
            /\ appServerMap'[n].server_url = ServerUrl(appServerMap'[n].server_slug)
            /\ (n \notin DOMAIN appServerMap \/ appServerMap'[n] # appServerMap[n])
                 => /\ ListingStep
                    /\ InSet(appServerMap'[n].server_slug, servers')
       /\ (AllKnown /\ ~AllKnown')
            => (CallListServers /\ appServerMap' = appServerMap)]_vars

\* list_servers has replaced the set and an app still maps to a server that
\* the new set does not hold.
C28_Witness ==
    /\ pc = "idle" /\ call.tool = "list_servers" /\ ~result.isError
    /\ \E n \in DOMAIN appServerMap :
          ~InSet(appServerMap[n].server_slug, servers)

(***************************************************************************)
(* What a lookup by app name that missed does to the other apps.           *)
(***************************************************************************)
\* Every app the map held when the lookup missed, the one looked up set
\* aside, is in the map with the URL it had.
OthersKept ==
    \A n \in DOMAIN held \ {call.arg} :
        /\ n \in DOMAIN appServerMap
        /\ appServerMap[n].server_url = held[n].server_url

\* The map holds exactly what the listings in the log returned.
RebuiltFromListings ==
    /\ \A n \in DOMAIN appServerMap :
          appServerMap[n].app_name = n /\ ReturnedInRefresh(appServerMap[n])
    /\ \A i \in 1..Len(ListingLog) :
          (ListingLog[i].st = "ok" /\ ListingLog[i].body.t = "arr")
          => \A j \in 1..Len(ListingLog[i].body.v) :
                LET n == appNameOf(ListingLog[i].body.v[j]) IN
                n # "" => n \in DOMAIN appServerMap

\* C29 as stated: after a lookup by app name that missed, every other app
\* that was in the map before is still there with the same URL.
C29_MissKeepsOthers_AsStated == MissEnded => OthersKept

\* C29: a miss rebuilds the map.  After a lookup by app name that missed,
\* the map is what it was before only when the refresh listed no server (its
\* discovery failed or found none); when it listed, the map holds exactly
\* the entries the listings of that refresh returned, so another app that
\* was in the map before is still there only if a server returned it again.
C29_MissRebuilds ==
    MissEnded
    => IF ListingLog = <<>> THEN appServerMap = held /\ LookupFailed
                            ELSE RebuiltFromListings

\* The lookup of one app has evicted the other.
C29_Witness ==
    /\ MissEnded /\ ListingLog # <<>>
    /\ \E n \in DOMAIN held \ {call.arg} : n \notin DOMAIN appServerMap

(***************************************************************************)
(* Properties of the status call for a recorded run.                       *)
(***************************************************************************)
\* Every entry of the run map is still there with its URL after the step.
EntriesStay ==
    \A R \in DOMAIN runServerMap :
        R \in DOMAIN runServerMap' /\ runServerMap'[R] = runServerMap[R]

\* A status call for a recorded run resolves to the recorded URL without a
\* request; the handler then sends one status request, to that URL, and a
\* failed one ends the call with an error, without a probe and with the run
\* map as it was.
StickyStatus ==
    /\ \A R \in RunIds :
          (CallGetDeploymentStatus /\ call'.arg = R /\ Authed # NoConfig
                /\ R \in DOMAIN runServerMap)
          => /\ pc' = "run" /\ reqs' = <<>>
             /\ result'.url = runServerMap[R]
             /\ runServerMap' = runServerMap
    /\ (pc' = "run")
          => /\ call'.arg \in DOMAIN runServerMap'
             /\ result'.url = runServerMap'[call'.arg]
    /\ StatusTail
          => /\ Len(reqs') = 1 /\ reqs'[1].op = "status"
             /\ ServerUrl(reqs'[1].to) = runServerMap[call.arg]
             /\ runServerMap' = runServerMap
             /\ pc' = "idle"
             /\ (reqs'[1].st # "ok")
                  => /\ result'.isError
                     /\ result'.kind \in {"GetStatusFailed", "NetworkError"}

\* A server has answered a deploy or a run listing with the id of a run that
\* the map records for another server, and the map now records it for this
\* one.
ReportedElsewhere ==
    /\ DeployTail \/ ListRunsTail
    /\ reqs'[Len(reqs')].st = "ok"
    /\ DOMAIN runServerMap \subseteq DOMAIN runServerMap'
    /\ \A R \in DOMAIN runServerMap :
          runServerMap'[R] # runServerMap[R] => runServerMap'[R] = result.url

====
